---- MODULE Spec2Model ----
(***************************************************************************)
(* amVideo-rs: binding layer around the vendor amVideo module.             *)
(*                                                                         *)
(* The model follows src/src/main.rs and src/src/library_handle.rs.  Every *)
(* call that crosses the boundary (LoadLibraryW, GetProcAddress, the four  *)
(* vendor entry points, FreeLibrary) is appended to `trace`, so that the   *)
(* number and the order of native calls can be stated over states.         *)
(*                                                                         *)
(* Three specifications are given:                                         *)
(*   MainSpec  the program's main()                                        *)
(*   Spec      the AmVideo API under every caller: main(), and a caller    *)
(*             that makes any sequence of operations on a controller       *)
(*   BuildSpec the build of the program for a target ABI, then main()      *)
(***************************************************************************)
EXTENDS Integers, Sequences, FiniteSets, TLC

VARIABLES
    pc,        \* position of the caller
    amvideo,   \* the AmVideo value owned by the caller, or NoAmVideo
    trace,     \* native calls made so far, oldest first
    ret,       \* Result of the last AmVideo operation
    mainRet,   \* Result of main()
    setting,   \* the caller's AmVideoSetting record, or NoSetting
    vbuf,      \* the 255-byte buffer of the get_vbios_version call that just returned
    image,     \* offsets of the module image written by this process
    stdout,    \* lines printed
    stderr,    \* diagnostics printed
    ncalls,    \* operations made on the controller by the arbitrary caller
    op,        \* the operation the caller performed last
    target     \* the ABI the program is built for: alignments of u32 and u16

vars == <<pc, amvideo, trace, ret, mainRet, setting, vbuf, image, stdout, stderr, ncalls, op, target>>

----------------------------------------------------------------------------
(* Bounds of the model *)

\* largest native return code the environment produces
MaxCode == 2
\* operations an arbitrary caller makes on one controller
MaxCalls == 2

Codes == 0..MaxCode

----------------------------------------------------------------------------
(* Binary data structures, main.rs:39-88 *)

SIZE_OF_U32 == 4
SIZE_OF_U16 == 2

AM_VIDEO_CONTEXT_DATA_SIZE == 1024 - SIZE_OF_U32

\* AmVideoMode discriminants
Single == 0
CloneVideoMode == 1
DualVideoMode == 4

AmVideoModes == {Single, CloneVideoMode, DualVideoMode}

Zeros(n) == [i \in 1..n |-> 0]

\* struct AmVideoContext { version, data }
AmVideoContext(version, data) == [version |-> version, data |-> data]

\* struct AmVideoResolution { width, height }
AmVideoResolution(width, height) == [width |-> width, height |-> height]

\* struct AmVideoSetting
AmVideoSetting(version, use_segatiming, mode, resolution_1, resolution_2) ==
    [version |-> version, use_segatiming |-> use_segatiming, mode |-> mode,
     resolution_1 |-> resolution_1, resolution_2 |-> resolution_2]

----------------------------------------------------------------------------
(* Layout of the structures passed to the module, main.rs:41-88 *)

\* the ABI of x86 and x86_64 Windows, for which the vendor module exists
TargetWindows == [align_u32 |-> 4, align_u16 |-> 2]

\* ABIs a build can be asked for: alignments of u32 and of u16
Targets == [align_u32 : {1, 2, 4, 8}, align_u16 : {1, 2, 4}]

AlignUp(n, a) == ((n + a - 1) \div a) * a

\* a field: its size and its alignment in bytes
Field(size, align) == [size |-> size, align |-> align]

u32(t) == Field(SIZE_OF_U32, t.align_u32)
u16(t) == Field(SIZE_OF_U16, t.align_u16)
u8_array(n) == Field(n, 1)

\* #[repr(C)]: the fields are laid out in declaration order, each at the next
\* offset that is a multiple of its alignment; the alignment of the struct is
\* the largest of its fields', and its size is rounded up to that alignment
repr_c(fields) ==
    LET n == Len(fields)
        offset[k \in 1..n] ==
            IF k = 1 THEN 0
            ELSE AlignUp(offset[k - 1] + fields[k - 1].size, fields[k].align)
        align == CHOOSE a \in {fields[k].align : k \in 1..n} :
                    \A k \in 1..n : fields[k].align <= a
    IN  [offsets |-> [k \in 1..n |-> offset[k]],
         sizes |-> [k \in 1..n |-> fields[k].size],
         align |-> align,
         size |-> AlignUp(offset[n] + fields[n].size, align)]

\* a struct as a field of another
Nested(layout) == Field(layout.size, layout.align)

\* mem::size_of
size_of(layout) == layout.size

\* struct AmVideoContext { version: u32, data: [u8; AM_VIDEO_CONTEXT_DATA_SIZE] }
AmVideoContextLayout(t) == repr_c(<< u32(t), u8_array(AM_VIDEO_CONTEXT_DATA_SIZE) >>)

\* struct AmVideoResolution { width: u16, height: u16 }
AmVideoResolutionLayout(t) == repr_c(<< u16(t), u16(t) >>)

\* #[repr(u32)] enum AmVideoMode
AmVideoModeLayout(t) == u32(t)

\* struct AmVideoSetting { version: u32, use_segatiming: u32, mode: AmVideoMode,
\*                         resolution_1, resolution_2: AmVideoResolution }
AmVideoSettingLayout(t) ==
    repr_c(<< u32(t), u32(t), AmVideoModeLayout(t),
              Nested(AmVideoResolutionLayout(t)), Nested(AmVideoResolutionLayout(t)) >>)

\* faulty variant: the sizes are not asserted
const_assert_none(t) == TRUE

\* const_assert_eq!(mem::size_of::<AmVideoContext>(), 0x400);
\* const_assert_eq!(mem::size_of::<AmVideoSetting>(), 0x14);
const_assert(t) ==
    /\ size_of(AmVideoContextLayout(t)) = 1024
    /\ size_of(AmVideoSettingLayout(t)) = 20

----------------------------------------------------------------------------
(* Results *)

Result(tag, code, text, names) ==
    [tag |-> tag, code |-> code, text |-> text, names |-> names]

Ok == Result("Ok", 0, <<>>, <<>>)
OkString(s) == Result("OkString", 0, s, <<>>)
\* AmVideoError(usize)
AmVideoError(code) == Result("AmVideoError", code, <<>>, <<>>)
Utf8Error == Result("Utf8Error", 0, <<>>, <<>>)
LoadError == Result("LoadError", 0, <<>>, <<>>)
RegistryError == Result("RegistryError", 0, <<>>, <<>>)
\* anyhow!("Failed to find functions: {}", bad_funcs.join(", "))
FindFunctionsError(names) == Result("FindFunctionsError", 0, <<>>, names)
NoResult == Result("None", 0, <<>>, <<>>)

----------------------------------------------------------------------------
(* Native events *)

NULL == 0

\* the address at which the loader maps the module when the load succeeds
ModuleBase == 4096

\* a record that holds no setting yet
NoSetting == AmVideoSetting(0, 0, 0, AmVideoResolution(0, 0), AmVideoResolution(0, 0))

\* One call across the boundary.
\*   fn       "LoadLibraryW", "GetProcAddress", "FreeLibrary", or "call" for a
\*            call through a resolved function pointer
\*   addr     the function pointer called ("call"), the ordinal looked up
\*            ("GetProcAddress"), the handle freed ("FreeLibrary")
\*   ctx      the context the ctx pointer refers to, as passed in
\*   setting  the setting the setting pointer refers to
\*   size     the buffer size passed
\*   code     the value returned
Event(fn, addr, code) ==
    [fn |-> fn, addr |-> addr, hasctx |-> FALSE, ctx |-> AmVideoContext(0, << >>),
     setting |-> NoSetting, size |-> 0, code |-> code]

Call(addr, ctx, s, size, code) ==
    [fn |-> "call", addr |-> addr, hasctx |-> TRUE, ctx |-> ctx,
     setting |-> s, size |-> size, code |-> code]

\* Required symbols, in the order AmVideo::new looks them up: name, ordinal
Symbols ==
    << [name |-> "amDllVideoOpen", ordinal |-> 1],
       [name |-> "amDllVideoClose", ordinal |-> 2],
       [name |-> "amDllVideoSetResolution", ordinal |-> 3],
       [name |-> "amDllVideoGetVBiosVersion", ordinal |-> 4] >>

Ordinals == {Symbols[i].ordinal : i \in 1..Len(Symbols)}

\* GetProcAddress(handle, ordinal) for a module exporting `exports`
GetProcAddress(handle, exports, ordinal) ==
    IF ordinal \in exports THEN handle + ordinal ELSE NULL

\* The vendor module owns the private region of the context: a native call
\* leaves the context in one of these states.
NativeCtx(ctx) ==
    {ctx, [ctx EXCEPT !.data = [ctx.data EXCEPT ![1] = 255]]}

----------------------------------------------------------------------------
(* library_handle.rs *)

\* LibraryHandle::new
LibraryHandle(handle) == [handle |-> handle]

\* LibraryHandle::get_func_named_ordinal
get_func_named_ordinal(lib, exports, name, ordinal) ==
    LET func == GetProcAddress(lib.handle, exports, ordinal)
    IN  IF func # NULL
          THEN [ok |-> TRUE, func |-> func, name |-> name]
          ELSE [ok |-> FALSE, func |-> NULL, name |-> name]

\* faulty variant: the handle is never freed
DropLibraryHandle_leak(lib) == << >>

\* impl Drop for LibraryHandle: the native calls it makes
DropLibraryHandle(lib) ==
    IF lib.handle # NULL
      THEN << Event("FreeLibrary", lib.handle, 1) >>
      ELSE << >>

----------------------------------------------------------------------------
(* main.rs: AmVideo *)

\* no controller exists
NoAmVideo ==
    [live |-> FALSE, lib |-> LibraryHandle(NULL), video_open |-> NULL,
     video_close |-> NULL, video_set_resolution |-> NULL,
     video_get_v_bios_version |-> NULL, ctx |-> AmVideoContext(0, << >>)]

\* struct AmVideo
AmVideo(lib, video_open, video_close, video_set_resolution, video_get_v_bios_version, ctx) ==
    [live |-> TRUE, lib |-> lib, video_open |-> video_open,
     video_close |-> video_close, video_set_resolution |-> video_set_resolution,
     video_get_v_bios_version |-> video_get_v_bios_version, ctx |-> ctx]

\* the four lookups of AmVideo::new, in order
Lookups(lib, exports) ==
    [i \in 1..Len(Symbols) |->
        get_func_named_ordinal(lib, exports, Symbols[i].name, Symbols[i].ordinal)]

\* the GetProcAddress calls the lookups make
LookupEvents(results) ==
    [i \in 1..Len(results) |->
        Event("GetProcAddress", Symbols[i].ordinal, results[i].func)]

IsErr(r) == ~r.ok

\* faulty variant: fail-fast, only the first failed lookup is reported
bad_funcs_first(results) ==
    LET errs == SelectSeq(results, IsErr)
    IN  IF errs = << >> THEN << >> ELSE << errs[1].name >>

\* bad_funcs: the names of the lookups that failed, in lookup order
bad_funcs(results) ==
    LET errs == SelectSeq(results, IsErr)
    IN  [i \in 1..Len(errs) |-> errs[i].name]

\* faulty variant: the library handle is dropped when the constructor returns
new_drops_lib(handle, exports) ==
    LET load == << Event("LoadLibraryW", 0, handle) >>
        lib == LibraryHandle(handle)
        results == Lookups(lib, exports)
        bad == bad_funcs(results)
    IN  IF handle = NULL
          THEN [value |-> NoAmVideo, result |-> LoadError,
                calls |-> load, out |-> << >>]
          ELSE IF bad # << >>
            THEN [value |-> NoAmVideo, result |-> FindFunctionsError(bad),
                  calls |-> load \o LookupEvents(results) \o DropLibraryHandle(lib),
                  out |-> << "Opened amVideo.dll" >>]
            ELSE [value |-> AmVideo(LibraryHandle(NULL), results[1].func, results[2].func,
                                    results[3].func, results[4].func,
                                    AmVideoContext(1, Zeros(AM_VIDEO_CONTEXT_DATA_SIZE))),
                  result |-> Ok,
                  calls |-> load \o LookupEvents(results) \o DropLibraryHandle(lib),
                  out |-> << "Opened amVideo.dll", "Loaded amDllVideoOpen",
                             "Loaded amDllVideoClose", "Loaded amDllVideoSetResolution",
                             "Loaded amDllVideoGetVBiosVersion" >>]

\* faulty variant: the controller is built without looking at the failed lookups
new_unchecked(handle, exports) ==
    LET load == << Event("LoadLibraryW", 0, handle) >>
        lib == LibraryHandle(handle)
        results == Lookups(lib, exports)
    IN  IF handle = NULL
          THEN [value |-> NoAmVideo, result |-> LoadError,
                calls |-> load, out |-> << >>]
          ELSE [value |-> AmVideo(lib, results[1].func, results[2].func,
                                  results[3].func, results[4].func,
                                  AmVideoContext(1, Zeros(AM_VIDEO_CONTEXT_DATA_SIZE))),
                result |-> Ok,
                calls |-> load \o LookupEvents(results),
                out |-> << "Opened amVideo.dll" >>]

\* AmVideo::new(name), where LoadLibraryW returns `handle` and the module
\* exports the ordinals `exports`.
\*   value   the controller, or NoAmVideo when construction fails
\*   result  Ok or the error returned
\*   calls   native calls made, in order
\*   out     lines printed
new(handle, exports) ==
    LET load == << Event("LoadLibraryW", 0, handle) >>
        lib == LibraryHandle(handle)
        results == Lookups(lib, exports)
        bad == bad_funcs(results)
    IN  IF handle = NULL
          THEN [value |-> NoAmVideo, result |-> LoadError,
                calls |-> load, out |-> << >>]
          ELSE IF bad # << >>
            THEN [value |-> NoAmVideo, result |-> FindFunctionsError(bad),
                  calls |-> load \o LookupEvents(results) \o DropLibraryHandle(lib),
                  out |-> << "Opened amVideo.dll" >>]
            ELSE [value |-> AmVideo(lib, results[1].func, results[2].func,
                                    results[3].func, results[4].func,
                                    AmVideoContext(1, Zeros(AM_VIDEO_CONTEXT_DATA_SIZE))),
                  result |-> Ok,
                  calls |-> load \o LookupEvents(results),
                  out |-> << "Opened amVideo.dll", "Loaded amDllVideoOpen",
                             "Loaded amDllVideoClose", "Loaded amDllVideoSetResolution",
                             "Loaded amDllVideoGetVBiosVersion" >>]

\* faulty variant: open looks its entry point up again before the call
open_reresolve(self, code, ctx2) ==
    [self |-> [self EXCEPT !.ctx = ctx2],
     calls |-> << Event("GetProcAddress", 1, self.video_open),
                  Call(self.video_open, self.ctx, NoSetting, 0, code) >>,
     result |-> IF code = 0 THEN Ok ELSE AmVideoError(code)]

\* faulty variant: a failed open is retried once
open_retry(self, code, ctx2) ==
    LET first == Call(self.video_open, self.ctx, NoSetting, 0, code)
        again == Call(self.video_open, ctx2, NoSetting, 0, code)
    IN  [self |-> [self EXCEPT !.ctx = ctx2],
         calls |-> IF code = 0 THEN << first >> ELSE << first, again >>,
         result |-> IF code = 0 THEN Ok ELSE AmVideoError(code)]

\* AmVideo::open, where the native call returns `code` and leaves the
\* context as `ctx2`
open(self, code, ctx2) ==
    LET result == code
    IN  [self |-> [self EXCEPT !.ctx = ctx2],
         calls |-> << Call(self.video_open, self.ctx, NoSetting, 0, result) >>,
         result |-> IF result = 0 THEN Ok ELSE AmVideoError(result)]

\* faulty variant: a controller whose context the module has not written yet
\* is rejected without a native call
set_resolution_guarded(self, s, code, ctx2) ==
    IF self.ctx.data[1] = 0
      THEN [self |-> self, setting |-> s, calls |-> << >>,
            result |-> AmVideoError(1)]
      ELSE [self |-> [self EXCEPT !.ctx = ctx2],
            setting |-> s,
            calls |-> << Call(self.video_set_resolution, self.ctx, s, 0, code) >>,
            result |-> IF code = 0 THEN Ok ELSE AmVideoError(code)]

\* faulty variant: set_resolution opens the controller itself before the call
set_resolution_opens(self, s, code, ctx2) ==
    [self |-> [self EXCEPT !.ctx = ctx2],
     setting |-> s,
     calls |-> << Call(self.video_open, self.ctx, NoSetting, 0, 0),
                  Call(self.video_set_resolution, self.ctx, s, 0, code) >>,
     result |-> IF code = 0 THEN Ok ELSE AmVideoError(code)]

\* faulty variant: the record is normalised in place before it is returned to the caller
set_resolution_mut(self, s, code, ctx2) ==
    [self |-> [self EXCEPT !.ctx = ctx2],
     setting |-> [s EXCEPT !.resolution_2 = s.resolution_1],
     calls |-> << Call(self.video_set_resolution, self.ctx, s, 0, code) >>,
     result |-> IF code = 0 THEN Ok ELSE AmVideoError(code)]

\* AmVideo::set_resolution(&setting)
set_resolution(self, s, code, ctx2) ==
    LET result == code
    IN  [self |-> [self EXCEPT !.ctx = ctx2],
         setting |-> s,
         calls |-> << Call(self.video_set_resolution, self.ctx, s, 0, result) >>,
         result |-> IF result = 0 THEN Ok ELSE AmVideoError(result)]

\* size of the buffer of get_vbios_version
VBIOS_BUFFER_LEN == 255

Min(S) == CHOOSE x \in S : \A y \in S : x <= y

\* faulty variant: only the zero bytes at the end of the slice are removed
split_trim_end(data) ==
    LET nonzero == {i \in 1..Len(data) : data[i] # 0}
    IN  IF nonzero = {} THEN << >>
        ELSE SubSeq(data, 1, CHOOSE i \in nonzero : \A j \in nonzero : j <= i)

\* data.split(|&c| c == 0).nth(0): the subslice before the first zero byte,
\* the whole slice when there is none; split always yields a first subslice
split_nth0(data) ==
    LET zeros == {i \in 1..Len(data) : data[i] = 0}
    IN  IF zeros = {} THEN data ELSE SubSeq(data, 1, Min(zeros) - 1)

IsCont(b) == b >= 128 /\ b <= 191

\* the length of the well-formed UTF-8 sequence that starts at s[i], 0 when
\* there is none (core::str::from_utf8 validation)
utf8_char_len(s, i) ==
    LET n == Len(s)
        b0 == s[i]
        b1 == IF i + 1 <= n THEN s[i + 1] ELSE 0
        b2 == IF i + 2 <= n THEN s[i + 2] ELSE 0
        b3 == IF i + 3 <= n THEN s[i + 3] ELSE 0
    IN  IF b0 <= 127 THEN 1
        ELSE IF b0 >= 194 /\ b0 <= 223
          THEN (IF IsCont(b1) THEN 2 ELSE 0)
        ELSE IF b0 = 224
          THEN (IF b1 >= 160 /\ b1 <= 191 /\ IsCont(b2) THEN 3 ELSE 0)
        ELSE IF (b0 >= 225 /\ b0 <= 236) \/ b0 = 238 \/ b0 = 239
          THEN (IF IsCont(b1) /\ IsCont(b2) THEN 3 ELSE 0)
        ELSE IF b0 = 237
          THEN (IF b1 >= 128 /\ b1 <= 159 /\ IsCont(b2) THEN 3 ELSE 0)
        ELSE IF b0 = 240
          THEN (IF b1 >= 144 /\ b1 <= 191 /\ IsCont(b2) /\ IsCont(b3) THEN 4 ELSE 0)
        ELSE IF b0 >= 241 /\ b0 <= 243
          THEN (IF IsCont(b1) /\ IsCont(b2) /\ IsCont(b3) THEN 4 ELSE 0)
        ELSE IF b0 = 244
          THEN (IF b1 >= 128 /\ b1 <= 143 /\ IsCont(b2) /\ IsCont(b3) THEN 4 ELSE 0)
        ELSE 0

\* str::from_utf8(data).is_ok(): the slice is a concatenation of well-formed
\* sequences, that is, it does not start with a continuation byte, and every
\* byte that is not a continuation byte starts a well-formed sequence that is
\* followed by the end of the slice or by another such byte
from_utf8_ok(data) ==
    /\ Len(data) > 0 => ~IsCont(data[1])
    /\ \A i \in 1..Len(data) :
         ~IsCont(data[i]) =>
            LET k == utf8_char_len(data, i)
            IN  /\ k > 0
                /\ i + k <= Len(data) => ~IsCont(data[i + k])

\* faulty variant: the buffer is decoded before the native code is looked at
get_vbios_version_decode_first(self, code, buf, ctx2) ==
    LET data == split_nth0(buf)
    IN  [self |-> [self EXCEPT !.ctx = ctx2],
         calls |-> << Call(self.video_get_v_bios_version, self.ctx, NoSetting,
                           VBIOS_BUFFER_LEN, code) >>,
         buf |-> buf,
         result |-> IF ~from_utf8_ok(data) THEN Utf8Error
                    ELSE IF code # 0 THEN AmVideoError(code)
                    ELSE OkString(data)]

\* faulty variant: the bytes are taken as text without validation
get_vbios_version_lossy(self, code, buf, ctx2) ==
    LET data == split_nth0(buf)
    IN  [self |-> [self EXCEPT !.ctx = ctx2],
         calls |-> << Call(self.video_get_v_bios_version, self.ctx, NoSetting,
                           VBIOS_BUFFER_LEN, code) >>,
         buf |-> buf,
         result |-> IF code # 0 THEN AmVideoError(code) ELSE OkString(data)]

\* AmVideo::get_vbios_version, where the native call returns `code`, leaves
\* the 255-byte buffer holding `buf` and the context as `ctx2`
get_vbios_version(self, code, buf, ctx2) ==
    LET result == code
        data == split_nth0(buf)
    IN  [self |-> [self EXCEPT !.ctx = ctx2],
         calls |-> << Call(self.video_get_v_bios_version, self.ctx, NoSetting,
                           VBIOS_BUFFER_LEN, result) >>,
         buf |-> buf,
         result |-> IF result # 0 THEN AmVideoError(result)
                    ELSE IF from_utf8_ok(data) THEN OkString(data)
                    ELSE Utf8Error]

\* offsets patched by enable_logging
VALIDATE_LOG_LEVEL_OFFSET == 329172
LOG_LEVEL_OFFSET == 329176

\* AmVideo::enable_logging: the addresses of the module image it writes
enable_logging(self) ==
    {self.lib.handle + VALIDATE_LOG_LEVEL_OFFSET, self.lib.handle + LOG_LEVEL_OFFSET}

\* faulty variant: the controller is dropped without the native close
drop_no_close(self, code) ==
    [calls |-> DropLibraryHandle(self.lib), err |-> << >>]

\* faulty variant: the module is unloaded before the native close is called
drop_unload_first(self, code) ==
    [calls |-> DropLibraryHandle(self.lib)
                 \o << Call(self.video_close, self.ctx, NoSetting, 0, code) >>,
     err |-> IF code # 0 THEN << [msg |-> "Failed to close amVideo", code |-> code] >>
             ELSE << >>]

\* faulty variant: a failed close is not reported
drop_silent(self, code) ==
    [calls |-> << Call(self.video_close, self.ctx, NoSetting, 0, code) >>
                 \o DropLibraryHandle(self.lib),
     err |-> << >>]

\* impl Drop for AmVideo followed by the drop of its fields, where the
\* native close returns `code`
\*   calls  native calls made, in order
\*   err    diagnostics printed
drop(self, code) ==
    LET result == code
    IN  [calls |-> << Call(self.video_close, self.ctx, NoSetting, 0, result) >>
                     \o DropLibraryHandle(self.lib),
         err |-> IF result # 0 THEN << [msg |-> "Failed to close amVideo", code |-> result] >>
                 ELSE << >>]

----------------------------------------------------------------------------
(* The environment: what the vendor module may hand back *)

\* handles LoadLibraryW may return
Handles == {NULL, ModuleBase}

\* `prefix` followed by the byte b up to the end of the 255-byte buffer
Pad(prefix, b) ==
    prefix \o [i \in 1..(VBIOS_BUFFER_LEN - Len(prefix)) |-> b]

\* "1.23"
Text123 == << 49, 46, 50, 51 >>

\* contents of the buffer after the native query
NativeBuffers ==
    { Pad(<< >>, 0),                     \* nothing written
      Pad(Text123, 0),                   \* ASCII text, zero terminated
      Pad(Text123, 65),                  \* ASCII text filling the buffer, no zero byte
      Pad(Text123 \o << 0, 255 >>, 0),   \* text, a zero byte, then invalid bytes
      Pad(<< 195, 169 >>, 0),            \* a two-byte character
      Pad(<< 255 >>, 0),                 \* a byte that is never valid
      Pad(<< 195 >>, 0) }                \* a lead byte without its continuation

\* faulty variant: main asks for the dual mode
MainSetting_dual ==
    AmVideoSetting(1, 1, DualVideoMode, AmVideoResolution(1920, 1080),
                   AmVideoResolution(1920, 1080))

\* the setting main() passes, main.rs:282-294
MainSetting ==
    AmVideoSetting(1, 1, Single, AmVideoResolution(1920, 1080),
                   AmVideoResolution(1920, 1080))

\* settings an arbitrary caller passes
Settings ==
    { MainSetting,
      AmVideoSetting(1, 0, DualVideoMode, AmVideoResolution(1360, 768),
                     AmVideoResolution(640, 480)) }

----------------------------------------------------------------------------
Init ==
    /\ pc = "start"
    /\ amvideo = NoAmVideo
    /\ trace = << >>
    /\ ret = NoResult
    /\ mainRet = NoResult
    /\ setting = NoSetting
    /\ vbuf = << >>
    /\ image = {}
    /\ stdout = << >>
    /\ stderr = << >>
    /\ ncalls = 0
    /\ op = "none"
    /\ target = TargetWindows

----------------------------------------------------------------------------
(* The AmVideo API under an arbitrary caller *)

\* let amvideo = AmVideo::new(name)
New ==
    /\ pc = "start"
    /\ op' = "new"
    /\ \E handle \in Handles, exports \in SUBSET Ordinals :
         LET r == new(handle, exports)
         IN  /\ amvideo' = r.value
             /\ ret' = r.result
             /\ trace' = trace \o r.calls
             /\ stdout' = stdout \o r.out
             /\ pc' = IF r.result.tag = "Ok" THEN "live" ELSE "failed"
    /\ UNCHANGED <<target, mainRet, setting, vbuf, image, stderr, ncalls>>

\* amvideo.open()
Open ==
    /\ pc = "live"
    /\ op' = "open"
    /\ ncalls < MaxCalls
    /\ \E code \in Codes, ctx2 \in NativeCtx(amvideo.ctx) :
         LET r == open(amvideo, code, ctx2)
         IN  /\ amvideo' = r.self
             /\ ret' = r.result
             /\ trace' = trace \o r.calls
    /\ ncalls' = ncalls + 1
    /\ vbuf' = << >>
    /\ UNCHANGED <<target, pc, mainRet, setting, image, stdout, stderr>>

\* amvideo.set_resolution(&setting), with a record the caller builds before
\* its first call and passes again afterwards
SetResolution ==
    /\ pc = "live"
    /\ op' = "set_resolution"
    /\ ncalls < MaxCalls
    /\ \E s \in (IF setting = NoSetting THEN Settings ELSE {setting}),
          code \in Codes, ctx2 \in NativeCtx(amvideo.ctx) :
         LET r == set_resolution(amvideo, s, code, ctx2)
         IN  /\ amvideo' = r.self
             /\ setting' = r.setting
             /\ ret' = r.result
             /\ trace' = trace \o r.calls
    /\ ncalls' = ncalls + 1
    /\ vbuf' = << >>
    /\ UNCHANGED <<target, pc, mainRet, image, stdout, stderr>>

\* amvideo.get_vbios_version()
GetVbiosVersion ==
    /\ pc = "live"
    /\ op' = "get_vbios_version"
    /\ ncalls < MaxCalls
    /\ \E code \in Codes, buf \in NativeBuffers, ctx2 \in NativeCtx(amvideo.ctx) :
         LET r == get_vbios_version(amvideo, code, buf, ctx2)
         IN  /\ amvideo' = r.self
             /\ vbuf' = r.buf
             /\ ret' = r.result
             /\ trace' = trace \o r.calls
    /\ ncalls' = ncalls + 1
    /\ UNCHANGED <<target, pc, mainRet, setting, image, stdout, stderr>>

\* amvideo.enable_logging()
EnableLogging ==
    /\ pc = "live"
    /\ op' = "enable_logging"
    /\ ncalls < MaxCalls
    /\ image' = image \cup enable_logging(amvideo)
    /\ ncalls' = ncalls + 1
    /\ vbuf' = << >>
    /\ UNCHANGED <<target, pc, amvideo, trace, ret, mainRet, setting, stdout, stderr>>

\* amvideo goes out of scope
Drop ==
    /\ pc = "live"
    /\ op' = "drop"
    /\ \E code \in Codes :
         LET r == drop(amvideo, code)
         IN  /\ trace' = trace \o r.calls
             /\ stderr' = stderr \o r.err
    /\ amvideo' = NoAmVideo
    /\ pc' = "dropped"
    /\ vbuf' = << >>
    /\ UNCHANGED <<target, ret, mainRet, setting, image, stdout, ncalls>>

ApiNext ==
    \/ New
    \/ Open
    \/ SetResolution
    \/ GetVbiosVersion
    \/ EnableLogging
    \/ Drop

----------------------------------------------------------------------------
(* main() *)

\* main.rs:263-267: the module name is read from the registry; `found` tells
\* whether the key and its value exist
MainName ==
    /\ pc = "start"
    /\ op' = "name"
    /\ \E found \in BOOLEAN :
         IF found
           THEN /\ pc' = "main_new"
                /\ UNCHANGED mainRet
           ELSE /\ pc' = "done"
                /\ mainRet' = RegistryError
    /\ UNCHANGED <<target, amvideo, trace, ret, setting, vbuf, image, stdout, stderr, ncalls>>

\* faulty variant: main enables logging on the controller it has constructed
MainNew_logging ==
    /\ pc = "main_new"
    /\ op' = "new"
    /\ \E handle \in Handles, exports \in SUBSET Ordinals :
         LET r == new(handle, exports)
         IN  /\ amvideo' = r.value
             /\ ret' = r.result
             /\ trace' = trace \o r.calls
             /\ stdout' = stdout \o r.out
             /\ IF r.result.tag = "Ok"
                  THEN /\ pc' = "main_open"
                       /\ image' = image \cup enable_logging(r.value)
                       /\ UNCHANGED mainRet
                  ELSE /\ pc' = "done"
                       /\ mainRet' = r.result
                       /\ UNCHANGED image
    /\ UNCHANGED <<target, setting, vbuf, stderr, ncalls>>

\* main.rs:268: let mut amvideo = AmVideo::new(name)?;
MainNew ==
    /\ pc = "main_new"
    /\ op' = "new"
    /\ \E handle \in Handles, exports \in SUBSET Ordinals :
         LET r == new(handle, exports)
         IN  /\ amvideo' = r.value
             /\ ret' = r.result
             /\ trace' = trace \o r.calls
             /\ stdout' = stdout \o r.out
             /\ IF r.result.tag = "Ok"
                  THEN /\ pc' = "main_open"
                       /\ UNCHANGED mainRet
                  ELSE /\ pc' = "done"
                       /\ mainRet' = r.result
    /\ UNCHANGED <<target, setting, vbuf, image, stderr, ncalls>>

\* main.rs:270: amvideo.open()?; an error returns from main, which drops
\* amvideo
MainOpen ==
    /\ pc = "main_open"
    /\ op' = "open"
    /\ \E code \in Codes, ctx2 \in NativeCtx(amvideo.ctx), closeCode \in Codes :
         LET r == open(amvideo, code, ctx2)
             d == drop(r.self, closeCode)
         IN  /\ ret' = r.result
             /\ IF r.result.tag = "Ok"
                  THEN /\ amvideo' = r.self
                       /\ trace' = trace \o r.calls
                       /\ pc' = "main_vbios"
                       /\ UNCHANGED <<mainRet, stderr>>
                  ELSE /\ amvideo' = NoAmVideo
                       /\ trace' = trace \o r.calls \o d.calls
                       /\ stderr' = stderr \o d.err
                       /\ pc' = "done"
                       /\ mainRet' = r.result
    /\ UNCHANGED <<target, setting, vbuf, image, stdout, ncalls>>

\* faulty variant: a failed version query returns from main
MainGetVbiosVersion_propagate ==
    /\ pc = "main_vbios"
    /\ op' = "get_vbios_version"
    /\ \E code \in Codes, buf \in NativeBuffers, ctx2 \in NativeCtx(amvideo.ctx),
          closeCode \in Codes :
         LET r == get_vbios_version(amvideo, code, buf, ctx2)
             d == drop(r.self, closeCode)
         IN  /\ vbuf' = r.buf
             /\ ret' = r.result
             /\ IF r.result.tag = "OkString"
                  THEN /\ amvideo' = r.self
                       /\ trace' = trace \o r.calls
                       /\ stdout' = Append(stdout, "VBIOS Version")
                       /\ pc' = "main_setres"
                       /\ UNCHANGED <<stderr, mainRet>>
                  ELSE /\ amvideo' = NoAmVideo
                       /\ trace' = trace \o r.calls \o d.calls
                       /\ stderr' = stderr \o d.err
                       /\ pc' = "done"
                       /\ mainRet' = r.result
                       /\ UNCHANGED stdout
    /\ UNCHANGED <<target, setting, image, ncalls>>

\* main.rs:273-279: the version is printed, or the error is
MainGetVbiosVersion ==
    /\ pc = "main_vbios"
    /\ op' = "get_vbios_version"
    /\ \E code \in Codes, buf \in NativeBuffers, ctx2 \in NativeCtx(amvideo.ctx) :
         LET r == get_vbios_version(amvideo, code, buf, ctx2)
         IN  /\ amvideo' = r.self
             /\ vbuf' = r.buf
             /\ ret' = r.result
             /\ trace' = trace \o r.calls
             /\ IF r.result.tag = "OkString"
                  THEN /\ stdout' = Append(stdout, "VBIOS Version")
                       /\ UNCHANGED stderr
                  ELSE /\ stderr' = Append(stderr, [msg |-> "Failed to get VBIOS version",
                                                    code |-> r.result.code])
                       /\ UNCHANGED stdout
    /\ pc' = "main_setres"
    /\ UNCHANGED <<target, mainRet, setting, image, ncalls>>

\* main.rs:282-296: amvideo.set_resolution(&resolution)?; an error returns
\* from main, which drops amvideo
MainSetResolution ==
    /\ pc = "main_setres"
    /\ op' = "set_resolution"
    /\ \E code \in Codes, ctx2 \in NativeCtx(amvideo.ctx), closeCode \in Codes :
         LET r == set_resolution(amvideo, MainSetting, code, ctx2)
             d == drop(r.self, closeCode)
         IN  /\ ret' = r.result
             /\ setting' = r.setting
             /\ IF r.result.tag = "Ok"
                  THEN /\ amvideo' = r.self
                       /\ trace' = trace \o r.calls
                       /\ pc' = "main_return"
                       /\ UNCHANGED <<mainRet, stderr>>
                  ELSE /\ amvideo' = NoAmVideo
                       /\ trace' = trace \o r.calls \o d.calls
                       /\ stderr' = stderr \o d.err
                       /\ pc' = "done"
                       /\ mainRet' = r.result
    /\ stdout' = Append(stdout, "Attempting to set resolution")
    /\ vbuf' = << >>
    /\ UNCHANGED <<target, image, ncalls>>

\* main.rs:298-301: Ok(()) is returned and amvideo is dropped
MainReturn ==
    /\ pc = "main_return"
    /\ op' = "return"
    /\ \E closeCode \in Codes :
         LET d == drop(amvideo, closeCode)
         IN  /\ trace' = trace \o d.calls
             /\ stderr' = stderr \o d.err
    /\ amvideo' = NoAmVideo
    /\ stdout' = Append(stdout, "Done")
    /\ mainRet' = Ok
    /\ pc' = "done"
    /\ UNCHANGED <<target, ret, setting, vbuf, image, ncalls>>

MainNext ==
    \/ MainName
    \/ MainNew
    \/ MainOpen
    \/ MainGetVbiosVersion
    \/ MainSetResolution
    \/ MainReturn

\* the program
MainSpec == Init /\ [][MainNext]_vars

\* the AmVideo API under every caller: main() and arbitrary callers
Next == ApiNext \/ MainNext

Spec == Init /\ [][Next]_vars

----------------------------------------------------------------------------
(* The build *)

\* before the build, for any target
InitBuild ==
    /\ pc = "build"
    /\ target \in Targets
    /\ amvideo = NoAmVideo
    /\ trace = << >>
    /\ ret = NoResult
    /\ mainRet = NoResult
    /\ setting = NoSetting
    /\ vbuf = << >>
    /\ image = {}
    /\ stdout = << >>
    /\ stderr = << >>
    /\ ncalls = 0
    /\ op = "none"

\* the compiler evaluates the two size assertions: a program exists only when
\* they hold
Build ==
    /\ pc = "build"
    /\ op' = "build"
    /\ pc' = IF const_assert(target) THEN "start" ELSE "rejected"
    /\ UNCHANGED <<target, amvideo, trace, ret, mainRet, setting, vbuf, image, stdout,
                   stderr, ncalls>>

BuildNext == Build \/ MainNext

\* the program from its build on
BuildSpec == InitBuild /\ [][BuildNext]_vars

----------------------------------------------------------------------------
(* Reading the trace *)

\* the address of the export with this ordinal in the loaded module
EntryPoint(ordinal) == ModuleBase + ordinal

\* positions of the calls of the entry point with this ordinal
CallsTo(tr, ordinal) ==
    {i \in DOMAIN tr : tr[i].fn = "call" /\ tr[i].addr = EntryPoint(ordinal)}

\* positions of the calls through any function pointer
NativeCalls(tr) == {i \in DOMAIN tr : tr[i].fn = "call"}

\* positions of the unloads
Unloads(tr) == {i \in DOMAIN tr : tr[i].fn = "FreeLibrary"}

\* positions of the symbol lookups
LookupIdx(tr) == {i \in DOMAIN tr : tr[i].fn = "GetProcAddress"}

\* the load was made and gave a module
Loaded ==
    /\ trace # << >>
    /\ trace[1].fn = "LoadLibraryW"
    /\ trace[1].code # NULL

\* names of the required symbols whose lookup gave NULL
Missing(tr) ==
    {Symbols[k].name : k \in {k \in 1..Len(Symbols) :
        \E i \in LookupIdx(tr) : tr[i].addr = Symbols[k].ordinal /\ tr[i].code = NULL}}

\* the load and the four lookups succeeded
Resolved ==
    /\ Loaded
    /\ \A k \in 1..Len(Symbols) :
         \E i \in LookupIdx(trace) : trace[i].addr = Symbols[k].ordinal /\ trace[i].code # NULL

\* the caller has ended: construction failed, the controller was dropped, or
\* main returned
Exited == pc \in {"failed", "dropped", "done"}

\* the native calls the current step makes
NewEvents == SubSeq(trace', Len(trace) + 1, Len(trace'))

CloseFailure(code) == [msg |-> "Failed to close amVideo", code |-> code]

----------------------------------------------------------------------------
(* Claims *)

\* C1: a controller that was constructed is closed exactly once when it is
\* destroyed, whatever operations were made on it and whatever they returned,
\* and the close call is given the context the controller owns; no close is
\* made before destruction or without a controller.
C1_CloseExactlyOnce ==
    /\ [](Cardinality(CallsTo(trace, 2)) = IF Resolved /\ Exited THEN 1 ELSE 0)
    /\ [][(pc = "live" /\ pc' = "dropped") =>
            LET made == NewEvents
            IN  /\ made # << >>
                /\ made[1].fn = "call"
                /\ made[1].addr = amvideo.video_close
                /\ made[1].addr = EntryPoint(2)
                /\ made[1].hasctx
                /\ made[1].ctx = amvideo.ctx]_vars

\* a controller on which open failed and set_resolution was called has been
\* dropped and closed once
C1_Witness ==
    /\ pc = "dropped"
    /\ Cardinality(CallsTo(trace, 2)) = 1
    /\ \E i \in CallsTo(trace, 1) : trace[i].code # 0
    /\ CallsTo(trace, 3) # {}

\* C2: the module is unloaded exactly once on every exit path after a
\* successful load, never before the exit, never when the load failed, and the
\* unload is given the handle that was loaded and is the last native call.
C2_UnloadExactlyOnce ==
    /\ Cardinality(Unloads(trace)) = IF Loaded /\ Exited THEN 1 ELSE 0
    /\ \A i \in Unloads(trace) :
         /\ trace[i].addr = trace[1].code
         /\ i = Len(trace)

\* construction returned early because symbols are missing, and the module
\* was unloaded
C2_Witness ==
    /\ pc = "failed"
    /\ Loaded
    /\ ~Resolved
    /\ Cardinality(Unloads(trace)) = 1

\* C3: every close call precedes every unload, and a controller that has
\* ended its life has had both.
C3_CloseBeforeUnload ==
    /\ \A i \in CallsTo(trace, 2), j \in Unloads(trace) : i < j
    /\ (Resolved /\ Exited) =>
          \E i \in CallsTo(trace, 2), j \in Unloads(trace) :
             /\ i < j
             /\ trace[j].addr = trace[1].code

\* a controller was used, dropped, closed and then its module unloaded
C3_Witness ==
    /\ pc = "dropped"
    /\ ncalls > 0
    /\ \E i \in CallsTo(trace, 2), j \in Unloads(trace) : i < j

\* what main returns, from the codes open and set_resolution returned
MainOutcome(tr) ==
    LET fails == {i \in CallsTo(tr, 1) \cup CallsTo(tr, 3) : tr[i].code # 0}
    IN  IF fails = {} THEN Ok ELSE AmVideoError(tr[Min(fails)].code)

\* C4: in a step that calls close, a nonzero close code is written to the
\* diagnostics and nothing else: the module is unloaded after the close, the
\* result an arbitrary caller holds is unchanged, and the result of main is
\* the one the codes of open and set_resolution determine.
C4_CloseFailureNotPropagated ==
    [][(CallsTo(trace', 2) # CallsTo(trace, 2)) =>
         LET k == CHOOSE i \in CallsTo(trace', 2) : i \notin CallsTo(trace, 2)
             c == trace'[k].code
         IN  /\ stderr' = stderr \o (IF c # 0 THEN << CloseFailure(c) >> ELSE << >>)
             /\ k < Len(trace')
             /\ trace'[Len(trace')].fn = "FreeLibrary"
             /\ pc = "live" => (ret' = ret /\ mainRet' = mainRet)
             /\ pc' = "done" => mainRet' = MainOutcome(trace')]_vars

\* main returned Ok although close returned a nonzero code, which was
\* reported, and the module was unloaded
C4_Witness ==
    /\ pc = "done"
    /\ mainRet = Ok
    /\ \E i \in CallsTo(trace, 2) : trace[i].code # 0 /\ stderr # << >>
    /\ trace[Len(trace)].fn = "FreeLibrary"

\* C5: in a construction whose load succeeded, each of the four symbols is
\* looked up once whichever are missing, construction fails exactly when a
\* symbol is missing, and the error then lists the missing names, each once
\* and no other.
C5_AllMissingSymbolsListed ==
    [][(trace = << >> /\ trace' # << >> /\ trace'[1].code # NULL) =>
         /\ \A k \in 1..Len(Symbols) :
              Cardinality({i \in LookupIdx(trace') :
                              trace'[i].addr = Symbols[k].ordinal}) = 1
         /\ (ret'.tag # "Ok") <=> (Missing(trace') # {})
         /\ amvideo'.live <=> (Missing(trace') = {})
         /\ (Missing(trace') # {}) =>
               /\ ret'.tag = "FindFunctionsError"
               /\ {ret'.names[i] : i \in DOMAIN ret'.names} = Missing(trace')
               /\ Len(ret'.names) = Cardinality(Missing(trace'))]_vars

\* construction failed with an error that lists several missing symbols, the
\* first one not being the only one
C5_Witness ==
    /\ op = "new"
    /\ ret.tag = "FindFunctionsError"
    /\ Len(ret.names) >= 2
    /\ Cardinality(LookupIdx(trace)) = 4

\* C6: a controller exists only after the load and the four lookups
\* succeeded, and it holds the loaded handle and the four resolved addresses;
\* otherwise construction returned an error, no controller exists and no
\* entry point has been called; a fresh controller holds a context with
\* version 1 and 1020 zero bytes.
C6_NoPartialController ==
    /\ amvideo.live =>
          /\ Resolved
          /\ amvideo.lib.handle = trace[1].code
          /\ amvideo.video_open = EntryPoint(1)
          /\ amvideo.video_close = EntryPoint(2)
          /\ amvideo.video_set_resolution = EntryPoint(3)
          /\ amvideo.video_get_v_bios_version = EntryPoint(4)
    /\ ~Resolved =>
          /\ ~amvideo.live
          /\ NativeCalls(trace) = {}
          /\ op = "new" => ret.tag \in {"LoadError", "FindFunctionsError"}
    /\ (op = "new" /\ Resolved) =>
          /\ ret = Ok
          /\ amvideo.live
          /\ amvideo.ctx.version = 1
          /\ Len(amvideo.ctx.data) = 1020
          /\ \A i \in 1..1020 : amvideo.ctx.data[i] = 0

\* construction failed on one missing symbol and left no controller
C6_Witness ==
    /\ op = "new"
    /\ Loaded
    /\ Len(ret.names) = 1
    /\ ~amvideo.live
    /\ NativeCalls(trace) = {}

\* C7: a call of open makes one call of the native open entry point, with the
\* owned context, and returns Ok exactly when the code is 0, otherwise the
\* error that carries the code.
C7_OpenContract ==
    [][(op' = "open") =>
         LET made == NewEvents
         IN  /\ made # << >>
             /\ made[1].fn = "call"
             /\ made[1].addr = EntryPoint(1)
             /\ made[1].ctx = amvideo.ctx
             /\ Cardinality(CallsTo(trace', 1)) = Cardinality(CallsTo(trace, 1)) + 1
             /\ (ret'.tag = "Ok") <=> (made[1].code = 0)
             /\ ret' = IF made[1].code = 0 THEN Ok ELSE AmVideoError(made[1].code)]_vars

\* open returned the error carrying the code 2
C7_Witness ==
    /\ op = "open"
    /\ ret = AmVideoError(2)
    /\ trace[Len(trace)].code = 2

\* C8: a call of set_resolution makes one call of the native set-resolution
\* entry point with the caller's record, returns Ok exactly when the code is
\* 0, otherwise the error that carries the code, and the caller's record is
\* afterwards what was passed: a record the caller already held is unchanged.
C8_SetResolutionContract ==
    [][(op' = "set_resolution") =>
         LET made == NewEvents
         IN  /\ made # << >>
             /\ made[1].fn = "call"
             /\ made[1].addr = EntryPoint(3)
             /\ made[1].ctx = amvideo.ctx
             /\ made[1].setting \in Settings
             /\ (setting # NoSetting) => (made[1].setting = setting)
             /\ Cardinality(CallsTo(trace', 3)) = Cardinality(CallsTo(trace, 3)) + 1
             /\ (ret'.tag = "Ok") <=> (made[1].code = 0)
             /\ ret' = IF made[1].code = 0 THEN Ok ELSE AmVideoError(made[1].code)
             /\ setting' = made[1].setting]_vars

\* the same record was passed to two calls, the second of which failed
C8_Witness ==
    /\ op = "set_resolution"
    /\ Cardinality(CallsTo(trace, 3)) = 2
    /\ \A i \in CallsTo(trace, 3) : trace[i].setting = setting
    /\ ret.tag = "AmVideoError"
    /\ ret.code # 0

\* C9: after get_vbios_version, whose native query is given the 255-byte
\* buffer, a nonzero code gives the error that carries the code, whatever the
\* buffer holds, and a text or a decode error is returned only when the code
\* is 0.
C9_NativeErrorFirst ==
    (op = "get_vbios_version") =>
        LET e == trace[Len(trace)]
        IN  /\ e.fn = "call"
            /\ e.addr = EntryPoint(4)
            /\ e.size = 255
            /\ Len(vbuf) = 255
            /\ (e.code # 0) => (ret = AmVideoError(e.code))
            /\ (ret.tag \in {"OkString", "Utf8Error"}) => (e.code = 0)

\* the query returned 2 and left a buffer that is not text: the error carries 2
C9_Witness ==
    /\ op = "get_vbios_version"
    /\ vbuf[1] = 255
    /\ ret = AmVideoError(2)

\* C10 as stated: bytes that are not valid text give the decode error
\* whatever the native code.
C10_DecodeErrorRegardlessOfCode ==
    (op = "get_vbios_version" /\ ~from_utf8_ok(split_nth0(vbuf))) =>
        ret.tag = "Utf8Error"

\* C10 as amended: when the native code is 0, the decode error is returned
\* exactly when the bytes before the first zero byte are not valid text (a
\* buffer that starts with the byte 255, or with a lead byte followed by zero,
\* is such a buffer); when the code is not 0 the decode error is never
\* returned.
C10_DecodeErrorWhenCodeIsZero ==
    (op = "get_vbios_version") =>
        LET e == trace[Len(trace)]
        IN  /\ (e.code = 0) =>
                 /\ (ret.tag = "Utf8Error") <=> ~from_utf8_ok(split_nth0(vbuf))
                 /\ (vbuf[1] = 255 \/ (vbuf[1] = 195 /\ vbuf[2] = 0)) =>
                        ret = Utf8Error
            /\ (e.code # 0) => (ret.tag # "Utf8Error")

\* the query returned 0 and a lead byte without its continuation
C10_Witness ==
    /\ op = "get_vbios_version"
    /\ trace[Len(trace)].code = 0
    /\ vbuf[1] = 195
    /\ vbuf[2] = 0
    /\ ret = Utf8Error

\* the number of bytes of the buffer before its first zero byte, the length
\* of the buffer when it holds none
TextLen(b) ==
    CHOOSE n \in 0..Len(b) :
        /\ \A i \in 1..n : b[i] # 0
        /\ n = Len(b) \/ b[n + 1] = 0

\* C11: when the native query returns 0, the result is a text or the decode
\* error; a text is the bytes of the buffer before its first zero byte: the
\* whole buffer when it holds no zero byte, the empty text when its first
\* byte is zero, "1.23" when it holds "1.23" and then a zero byte, whatever
\* follows that zero byte.
C11_TextBeforeFirstZero ==
    (op = "get_vbios_version" /\ trace[Len(trace)].code = 0) =>
        /\ ret.tag \in {"OkString", "Utf8Error"}
        /\ (ret.tag = "OkString") =>
              /\ Len(ret.text) = TextLen(vbuf)
              /\ \A i \in 1..Len(ret.text) : ret.text[i] = vbuf[i]
        /\ (\A i \in 1..Len(vbuf) : vbuf[i] \in 1..127) => (ret = OkString(vbuf))
        /\ (vbuf[1] = 0) => (ret = OkString(<< >>))
        /\ (\A i \in 1..4 : vbuf[i] = Text123[i]) /\ vbuf[5] = 0 =>
              (ret = OkString(<< 49, 46, 50, 51 >>))

\* the buffer held "1.23", a zero byte and then a byte that is not text, and
\* "1.23" was returned
C11_Witness ==
    /\ op = "get_vbios_version"
    /\ trace[Len(trace)].code = 0
    /\ vbuf[5] = 0
    /\ vbuf[6] = 255
    /\ ret = OkString(Text123)

\* The lifecycle state of the controller, read from the native calls made:
\* Closed once the close entry point was called, Opened once an open call
\* returned 0, Constructed once the four symbols are resolved.
Lifecycle(tr) ==
    IF CallsTo(tr, 2) # {} THEN "Closed"
    ELSE IF \E i \in CallsTo(tr, 1) : tr[i].code = 0 THEN "Opened"
    ELSE IF \A k \in 1..Len(Symbols) :
              \E i \in LookupIdx(tr) : tr[i].addr = Symbols[k].ordinal /\ tr[i].code # NULL
         THEN "Constructed"
    ELSE "None"

\* the trace up to and including its i-th call
Upto(tr, i) == SubSeq(tr, 1, i)

\* C12: the lifecycle only moves forward, Constructed -> Opened -> Closed.
\* open() gives Opened from Constructed exactly when the native code is 0;
\* set_resolution and get_vbios_version leave the state as it is; destroying
\* the controller gives Closed from Constructed and from Opened; once Closed,
\* no entry point is called and the state stays Closed.
C12_LifecycleForward ==
    /\ [](\A i \in DOMAIN trace :
            LET from == Lifecycle(Upto(trace, i - 1))
                to == Lifecycle(Upto(trace, i))
            IN  /\ <<from, to>> \in
                      { <<"None", "None">>, <<"None", "Constructed">>,
                        <<"Constructed", "Constructed">>, <<"Constructed", "Opened">>,
                        <<"Constructed", "Closed">>, <<"Opened", "Opened">>,
                        <<"Opened", "Closed">>, <<"Closed", "Closed">> }
                /\ (from = "Closed") => (trace[i].fn = "FreeLibrary")
                /\ (from = "None") => (trace[i].fn # "call"))
    /\ [][amvideo.live =>
            LET from == Lifecycle(trace)
                to == Lifecycle(trace')
            IN  /\ from \in {"Constructed", "Opened"}
                /\ (amvideo'.live /\ op' = "open") =>
                      LET code == trace'[Len(trace')].code
                      IN  to = IF code = 0 THEN "Opened" ELSE from
                /\ (amvideo'.live /\ op' \in {"set_resolution", "get_vbios_version",
                                               "enable_logging"}) => (to = from)
                /\ (~amvideo'.live) => (to = "Closed")]_vars

\* a controller on which open failed and then succeeded was destroyed
C12_Witness ==
    /\ pc = "dropped"
    /\ Lifecycle(trace) = "Closed"
    /\ \E i, j \in CallsTo(trace, 1) : i < j /\ trace[i].code # 0 /\ trace[j].code = 0

\* C13: set_resolution on a controller on which no open has succeeded is not
\* rejected locally: the native set-resolution entry point is called with the
\* controller's context and the caller's record, and the result is Ok when
\* the native code is 0 and the error carrying that code otherwise, as it is
\* on an opened controller.
C13_SetResolutionBeforeOpen ==
    [][(pc = "live" /\ op' = "set_resolution") =>
         LET made == NewEvents
         IN  /\ Len(made) = 1
             /\ made[1].fn = "call"
             /\ made[1].addr = EntryPoint(3)
             /\ made[1].ctx = amvideo.ctx
             /\ made[1].setting = setting'
             /\ ret' = IF made[1].code = 0 THEN Ok ELSE AmVideoError(made[1].code)]_vars

\* set_resolution succeeded on a controller whose only open had failed
C13_Witness ==
    /\ pc = "live"
    /\ op = "set_resolution"
    /\ ret = Ok
    /\ Lifecycle(trace) = "Constructed"
    /\ CallsTo(trace, 1) # {}
    /\ CallsTo(trace, 3) # {}

\* every call of an entry point returned 0
AllZero(tr) == \A i \in NativeCalls(tr) : tr[i].code = 0

\* the run made exactly: the load, the lookups of ordinals 1..4, the calls of
\* the entry points `ords` in this order, the unload; set_resolution was
\* given the setting {1, 1, Single, 1920x1080, 1920x1080}, and main returned
\* Ok having printed the version or reported that it is not text
ScenarioRun(ords) ==
    /\ Len(trace) = 1 + Len(Symbols) + Len(ords) + 1
    /\ trace[1].fn = "LoadLibraryW"
    /\ \A k \in 1..Len(Symbols) :
         trace[1 + k].fn = "GetProcAddress" /\ trace[1 + k].addr = k
    /\ \A k \in 1..Len(ords) :
         LET e == trace[1 + Len(Symbols) + k]
         IN  /\ e.fn = "call"
             /\ e.addr = EntryPoint(ords[k])
             /\ (ords[k] = 3) =>
                   e.setting = [version |-> 1, use_segatiming |-> 1, mode |-> 0,
                                resolution_1 |-> [width |-> 1920, height |-> 1080],
                                resolution_2 |-> [width |-> 1920, height |-> 1080]]
    /\ trace[Len(trace)].fn = "FreeLibrary"
    /\ Cardinality(CallsTo(trace, 2)) = 1
    /\ mainRet = Ok
    /\ \/ \E i \in DOMAIN stdout : stdout[i] = "VBIOS Version"
       \/ stderr = << [msg |-> "Failed to get VBIOS version", code |-> 0] >>

\* C14 as stated: with all symbols resolved and every native call returning
\* 0, the run is construction, open, set_resolution, get_vbios_version, and
\* destruction with one close.  main() queries the version before it sets
\* the resolution, so this does not hold.
C14_SetResolutionBeforeVersion ==
    (pc = "done" /\ Resolved /\ AllZero(trace)) => ScenarioRun(<< 1, 3, 4, 2 >>)

\* C14: with all symbols resolved and every native call returning 0, the run
\* is, in this order: the load, the resolution of the 4 symbols, open,
\* get_vbios_version, set_resolution with the setting {version 1,
\* use_segatiming 1, mode Single, 1920x1080, 1920x1080}, and destruction,
\* which calls close exactly once and then unloads the module.
C14_EndToEnd ==
    (pc = "done" /\ Resolved /\ AllZero(trace)) => ScenarioRun(<< 1, 4, 3, 2 >>)

\* main returned Ok after a run in which every call returned 0 and the
\* version was printed
C14_Witness ==
    /\ pc = "done"
    /\ Resolved
    /\ AllZero(trace)
    /\ mainRet = Ok
    /\ stderr = << >>
    /\ Cardinality(NativeCalls(trace)) = 4

\* the positions of main()
MainLabels == {"main_new", "main_open", "main_vbios", "main_setres", "main_return", "done"}

\* C15: the image of the loaded module is written by no step of main() and by
\* none of construction, open, set_resolution, get_vbios_version and
\* destruction; a step that writes it is an explicit enable_logging call on a
\* live controller, and writes the two patched offsets.
C15_LoggingOnlyExplicit ==
    /\ [](pc \in MainLabels => image = {})
    /\ [][/\ (op' # "enable_logging") => (image' = image)
          /\ (image' # image) =>
                /\ pc = "live"
                /\ image' = image \cup {amvideo.lib.handle + 329172,
                                        amvideo.lib.handle + 329176}]_vars

\* a controller was opened, given a resolution and destroyed, and the image
\* was never written
C15_Witness ==
    /\ pc = "dropped"
    /\ image = {}
    /\ CallsTo(trace, 1) # {}
    /\ CallsTo(trace, 3) # {}
    /\ CallsTo(trace, 2) # {}

\* the four entry-point references a controller holds
EntryPoints(a) ==
    << a.video_open, a.video_close, a.video_set_resolution, a.video_get_v_bios_version >>

\* C17: a controller holds the four entry points as resolved by one lookup
\* each, made at construction; no operation on the controller changes any of
\* the four references, and no step after construction looks a symbol up.
C17_ResolvedOnce ==
    /\ [](amvideo.live =>
            /\ EntryPoints(amvideo) =
                  << EntryPoint(1), EntryPoint(2), EntryPoint(3), EntryPoint(4) >>
            /\ \A k \in 1..Len(Symbols) :
                 Cardinality({i \in LookupIdx(trace) : trace[i].addr = Symbols[k].ordinal}) = 1
            /\ \A i \in LookupIdx(trace), j \in NativeCalls(trace) : i < j)
    /\ [][/\ (amvideo.live /\ amvideo'.live) => (EntryPoints(amvideo') = EntryPoints(amvideo))
          /\ (op' # "new") => (LookupIdx(trace') = LookupIdx(trace))]_vars

\* a live controller on which open and get_vbios_version were called, after
\* exactly four lookups
C17_Witness ==
    /\ pc = "live"
    /\ amvideo.live
    /\ CallsTo(trace, 1) # {}
    /\ CallsTo(trace, 4) # {}
    /\ Cardinality(LookupIdx(trace)) = 4

\* C18: every call of open, set_resolution and get_vbios_version comes before
\* the close call of the controller, and every call of any of the four entry
\* points comes before the unload of the module; every call goes to an entry
\* point of the module that was loaded.
C18_NoCallAfterCloseOrUnload ==
    /\ \A i \in CallsTo(trace, 1) \cup CallsTo(trace, 3) \cup CallsTo(trace, 4),
          j \in CallsTo(trace, 2) : i < j
    /\ \A i \in NativeCalls(trace), j \in Unloads(trace) : i < j
    /\ \A i \in NativeCalls(trace) :
          /\ Loaded
          /\ \E k \in Ordinals : trace[i].addr = trace[1].code + k

\* a controller on which open and get_vbios_version were called was closed
\* and its module unloaded
C18_Witness ==
    /\ pc = "dropped"
    /\ CallsTo(trace, 1) # {}
    /\ CallsTo(trace, 4) # {}
    /\ \E i \in CallsTo(trace, 2), j \in Unloads(trace) : i < j

\* the code returned by the only call of the entry point with this ordinal
CodeOf(ordinal) == trace[CHOOSE i \in CallsTo(trace, ordinal) : TRUE].code

VersionFailure(code) == [msg |-> "Failed to get VBIOS version", code |-> code]

\* C19: in main(), a failed get_vbios_version (native code or bytes that are
\* not text) is written to the diagnostics and the run goes on to
\* set_resolution; a failed open ends the run with its error and neither
\* get_vbios_version nor set_resolution is called; a failed set_resolution
\* ends the run with its error; in each case the controller is closed exactly
\* once and the module is unloaded right after, as the last call of the run.
C19_MainFailures ==
    /\ (pc = "main_setres") =>
          /\ amvideo.live
          /\ mainRet = NoResult
          /\ CallsTo(trace, 2) = {}
          /\ (ret.tag # "OkString") =>
                (ret.tag \in {"AmVideoError", "Utf8Error"} /\ stderr = << VersionFailure(ret.code) >>)
    /\ (pc = "done" /\ Resolved) =>
          /\ Cardinality(CallsTo(trace, 1)) = 1
          /\ IF CodeOf(1) # 0
               THEN /\ mainRet = AmVideoError(CodeOf(1))
                    /\ CallsTo(trace, 4) = {}
                    /\ CallsTo(trace, 3) = {}
               ELSE /\ Cardinality(CallsTo(trace, 4)) = 1
                    /\ Cardinality(CallsTo(trace, 3)) = 1
                    /\ \A i \in CallsTo(trace, 4), j \in CallsTo(trace, 3) : i < j
                    /\ (CodeOf(4) # 0) =>
                          (stderr # << >> /\ stderr[1] = VersionFailure(CodeOf(4)))
                    /\ mainRet = IF CodeOf(3) = 0 THEN Ok ELSE AmVideoError(CodeOf(3))
          /\ Cardinality(CallsTo(trace, 2)) = 1
          /\ Cardinality(Unloads(trace)) = 1
          /\ Len(trace) - 1 \in CallsTo(trace, 2)
          /\ Len(trace) \in Unloads(trace)

\* main returned Ok after a run in which the version query failed and the
\* resolution was set
C19_Witness ==
    /\ pc = "done"
    /\ Resolved
    /\ mainRet = Ok
    /\ \E i \in CallsTo(trace, 4) : trace[i].code # 0
    /\ \E j \in CallsTo(trace, 3) : trace[j].code = 0
    /\ stderr # << >>

\* C16: in a program that was built, the context structure is 1024 bytes, a
\* 4-byte version at offset 0 and 1020 private bytes at offset 4, and the
\* setting structure is 20 bytes: version, use_segatiming and mode of 4 bytes
\* at offsets 0, 4 and 8, resolution_1 at 12 and resolution_2 at 16, each a
\* 2-byte width and a 2-byte height, with no padding.  A target on which a
\* size differs is rejected by the build, and no native call is ever made.
C16_LayoutSizes ==
    LET ctx == AmVideoContextLayout(target)
        s == AmVideoSettingLayout(target)
        r == AmVideoResolutionLayout(target)
    IN  /\ (pc \notin {"build", "rejected"}) =>
              /\ ctx.size = 1024
              /\ ctx.offsets = << 0, 4 >>
              /\ ctx.sizes = << 4, 1020 >>
              /\ s.size = 20
              /\ s.offsets = << 0, 4, 8, 12, 16 >>
              /\ s.sizes = << 4, 4, 4, 4, 4 >>
              /\ r.size = 4
              /\ r.offsets = << 0, 2 >>
              /\ r.sizes = << 2, 2 >>
        /\ (pc = "rejected") <=> (op = "build" /\ (ctx.size # 1024 \/ s.size # 20))
        /\ (ctx.size # 1024 \/ s.size # 20) => (trace = << >> /\ amvideo = NoAmVideo)

\* a target on which the setting structure is padded was rejected
C16_Witness ==
    /\ pc = "rejected"
    /\ AmVideoSettingLayout(target).size > 20
    /\ trace = << >>

====
